---- MODULE Spec2Model ----
(***************************************************************************)
(* The Skydel remote API client (Python/skydelsdx): the socket reader of   *)
(* client.py, the framed session of clientcmd.py, the command factory of   *)
(* commandfactory.py and the command model of commandbase.py and           *)
(* commandresult.py.                                                       *)
(*                                                                         *)
(* Bytes are naturals below 256.  The text of an encoded field mapping on  *)
(* the wire is a short sequence of bytes, one byte per lexical unit: the   *)
(* text of a Result is <<name token, UUID of its related command>>, with   *)
(* the error message as a third unit when the Result carries one.          *)
(***************************************************************************)
EXTENDS Integers, Sequences, FiniteSets, TLC

(***************************************************************************)
(* Bounds of the model.                                                    *)
(***************************************************************************)
MaxFrames == 2      \* frames the server sends in one run
MaxCalls == 2       \* API calls the caller makes in one run
MaxCmds == 2        \* commands the caller constructs (their UUIDs are 1..MaxCmds)
MaxSize == 4        \* the largest size passed to _getPacket on its own
MaxBytes == 5       \* bytes the peer writes while _getPacket runs on its own
MaxPayload == 3     \* payload fields of a field mapping that is encoded and decoded
MaxOps == 2         \* set, setTimestamp and parse calls on one command object
MaxObjs == 4        \* command objects constructed in one run
MaxShort == 100     \* the longest of the short encoded texts that sendCommand is given
MaxOver == 4        \* how far the long encoded texts go around the limit of a frame
MaxComp == 1        \* the components of a coordinate value are in -MaxComp .. MaxComp

Uuids == 1 .. MaxCmds

Min(a, b) == IF a < b THEN a ELSE b

(***************************************************************************)
(* clientcmd.py: class MsgId, and the version the client announces.        *)
(***************************************************************************)
MsgIdCommand == 0
MsgIdResult == 1
MsgIdApiVersion == 2
ClientApiVersion == 40

(***************************************************************************)
(* struct.pack / struct.unpack, little endian.                             *)
(***************************************************************************)
\* the largest value of format "<H"
MaxH == 65535

\* struct.pack("<H", n) raises struct.error when n is out of range
PackHFitsAlways(n) == TRUE

PackHFits(n) == n <= MaxH

PackH(n) == << n % 256, (n \div 256) % 256 >>

PackI(n) == << n % 256, (n \div 256) % 256, (n \div 65536) % 256, (n \div 16777216) % 256 >>

UnpackHHighByte(p) == p[2]

UnpackH(p) == p[1] + 256 * p[2]

UnpackUIBigEndian(p) == p[4] + 256 * p[3] + 65536 * p[2] + 16777216 * p[1]

UnpackUI(p) == p[1] + 256 * p[2] + 65536 * p[3] + 16777216 * p[4]

\* "<i" is signed: a last byte of 128 or more is a negative number
UnpackI(p) ==
    p[1] + 256 * p[2] + 65536 * p[3] + 16777216 * (IF p[4] >= 128 THEN p[4] - 256 ELSE p[4])

(***************************************************************************)
(* The lexical units of the wire text.  A registered name resolves to a    *)
(* class of skydelsdx.commands, an unregistered one does not, and the      *)
(* malformed unit makes json.loads fail.                                   *)
(***************************************************************************)
NameTok(n) ==
    CASE n = "SuccessResult" -> 10
      [] n = "FailureResult" -> 11
      [] n = "NotRegistered" -> 12
      [] n = "GetPositionResult" -> 13
      [] n = "SetPosition" -> 20
      [] OTHER -> 99

RegisteredToks ==
    { NameTok("SuccessResult"), NameTok("FailureResult"), NameTok("GetPositionResult"),
      NameTok("SetPosition") }

NameToks == RegisteredToks \cup { NameTok("NotRegistered") }

MalformedText == << NameTok("") >>

(***************************************************************************)
(* commandfactory.py: createCommand on the text of a command, and          *)
(* createCommandResult on the text of a Result.  json.loads fails on       *)
(* malformed text, classFromName fails on a name that is not registered.   *)
(***************************************************************************)
JsonLoads(text) ==
    IF Len(text) \in { 2, 3 } /\ text[1] \in NameToks /\ \A i \in 2 .. Len(text) : text[i] \in 1 .. 255
    THEN [ok |-> TRUE, name |-> text[1], uuid |-> text[2],
          msg |-> IF Len(text) = 3 THEN text[3] ELSE 0]
    ELSE [ok |-> FALSE, name |-> 0, uuid |-> 0, msg |-> 0]

classFromName(tok) == tok \in RegisteredToks

createCommandResult(text) ==
    LET values == JsonLoads(text) IN
    IF ~values.ok THEN [err |-> "ParseError", name |-> 0, related |-> 0, msg |-> 0]
    ELSE IF ~classFromName(values.name)
    THEN [err |-> "ResolutionError", name |-> 0, related |-> 0, msg |-> 0]
    ELSE [err |-> "", name |-> values.name, related |-> values.uuid, msg |-> values.msg]

(***************************************************************************)
(* clientcmd.py: _sendMessage prefixes the message with its length.        *)
(***************************************************************************)
Message(packetBytes) == PackH(Len(packetBytes)) \o packetBytes

ApiVersionMessage(v) == Message(<< MsgIdApiVersion >> \o PackI(v))

CommandMessage(c) == Message(<< MsgIdCommand >> \o << NameTok("SetPosition"), c >> \o << 0 >>)

(***************************************************************************)
(* What the server sends: Results (for any command, of a registered or an  *)
(* unregistered type, or with malformed text), version replies and frames  *)
(* of other kinds.  Every frame is well framed: its length field counts    *)
(* the kind byte and the payload, and the byteLength of a Result counts    *)
(* its text and the terminator.                                            *)
(***************************************************************************)
ResultMessage(text) == Message(<< MsgIdResult >> \o PackI(Len(text) + 1) \o text \o << 0 >>)

ResultTexts ==
    { << NameTok("SuccessResult"), u >> : u \in Uuids }
        \cup { << NameTok("NotRegistered"), 1 >>, MalformedText }

ServerVersions == { 7 }

ServerFrames ==
    { ResultMessage(t) : t \in ResultTexts }
        \cup { ApiVersionMessage(v) : v \in ServerVersions }
        \cup { Message(<< MsgIdCommand >>), Message(<< MsgIdCommand, 5 >>) }

(***************************************************************************)
(* client.py: one call of sock.recv(n) on a stream socket.  It returns at  *)
(* most n bytes and at least one of those that have arrived; nothing when  *)
(* n = 0; nothing when the peer has closed and every byte was read; and it *)
(* blocks (no value) while nothing has arrived and the peer is open.       *)
(***************************************************************************)
RecvChunks(s, isClosed, n) ==
    IF n = 0 THEN { << >> }
    ELSE IF s = << >> THEN (IF isClosed THEN { << >> } ELSE { })
    ELSE { SubSeq(s, 1, k) : k \in 1 .. Min(n, Len(s)) }

(***************************************************************************)
(* client.py: Client._getPacket(size), one recv at a time.  The first recv *)
(* (line 37) asks for size bytes and is not tested for emptiness; each     *)
(* recv of the loop asks for what is missing and raises on an empty chunk. *)
(***************************************************************************)
GetPacketAskSize(pkt, isFirst, size) == size

GetPacketAsk(pkt, isFirst, size) == IF isFirst THEN size ELSE size - Len(pkt)

GetPacketStep(pkt, isFirst, size, chunk) ==
    IF isFirst
    THEN [packet |-> chunk, raised |-> FALSE, done |-> Len(chunk) = size]
    ELSE IF Len(chunk) = 0
    THEN [packet |-> pkt, raised |-> TRUE, done |-> FALSE]
    ELSE [packet |-> pkt \o chunk, raised |-> FALSE, done |-> Len(pkt \o chunk) = size]

(***************************************************************************)
(* commandbase.py: the values of a field mapping.  A string is a sequence  *)
(* of characters.  A mapping (a dict, the values of a command, the         *)
(* attributes of an object) is a sequence of fields [k, v] with distinct   *)
(* keys, in insertion order.                                               *)
(***************************************************************************)
IntV(n) == [t |-> "int", v |-> n]

StrV(chars) == [t |-> "str", s |-> chars]

DateV(y, mo, d) == [t |-> "date", y |-> y, mo |-> mo, d |-> d]

DateTimeV(y, mo, d, h, mi, sec, us) ==
    [t |-> "datetime", y |-> y, mo |-> mo, d |-> d, h |-> h, mi |-> mi, sec |-> sec, us |-> us]

DictV(fields) == [t |-> "dict", values |-> fields]

\* a CommandBase, by its values
CmdV(fields) == [t |-> "cmd", values |-> fields]

\* any other object with a __dict__ (a MakeObj among them), by its attributes
ObjV(fields) == [t |-> "obj", values |-> fields]

\* a string that is itself the text of the JSON tree j
JsonStrV(j) == [t |-> "jsonstr", j |-> j]

ErrorV(e) == [t |-> "error", e |-> e]

Field(k, v) == [k |-> k, v |-> v]

Keys(fields) == { fields[i].k : i \in 1 .. Len(fields) }

Get(fields, k) == fields[CHOOSE i \in 1 .. Len(fields) : fields[i].k = k].v

(***************************************************************************)
(* The JSON text, as the tree a JSON parser sees: an int, a string, or an  *)
(* object with its members in order.                                       *)
(***************************************************************************)
JObject(members) == [t |-> "object", members |-> members]

\* commandbase.py: Encoder.default and json.dumps around it
RECURSIVE Encode(_)
Encode(o) ==
    CASE o.t = "int" -> o
      [] o.t = "str" -> o
      [] o.t = "jsonstr" -> o
      [] o.t = "dict" ->
            JObject([i \in 1 .. Len(o.values) |-> Field(o.values[i].k, Encode(o.values[i].v))])
      [] o.t = "datetime" ->
            JObject(<< Field("Spec", StrV(<< "U", "T", "C" >>)), Field("Year", IntV(o.y)),
                       Field("Month", IntV(o.mo)), Field("Day", IntV(o.d)),
                       Field("Hour", IntV(o.h)), Field("Minute", IntV(o.mi)),
                       Field("Second", IntV(o.sec)) >>)
      [] o.t = "date" ->
            JObject(<< Field("Year", IntV(o.y)), Field("Month", IntV(o.mo)),
                       Field("Day", IntV(o.d)) >>)
      [] o.t = "cmd" -> Encode(DictV(o.values))
      [] o.t = "obj" -> Encode(DictV(o.values))

\* datetime.date(y, mo, d) and datetime.datetime(y, mo, d, h, mi, sec): the
\* arguments must be integers in range
DateArgsOk(d, keys, least) == \A k \in keys : Get(d, k).t = "int" /\ Get(d, k).v >= least

obj_hookSpecOnly(d) ==
    IF { "Year", "Month", "Day" } \subseteq Keys(d)
    THEN IF "Spec" \in Keys(d) /\ { "Hour", "Minute", "Second" } \subseteq Keys(d)
                /\ DateArgsOk(d, { "Year", "Month", "Day" }, 1)
                /\ DateArgsOk(d, { "Hour", "Minute", "Second" }, 0)
         THEN DateTimeV(Get(d, "Year").v, Get(d, "Month").v, Get(d, "Day").v,
                        Get(d, "Hour").v, Get(d, "Minute").v, Get(d, "Second").v, 0)
         ELSE IF "Spec" \in Keys(d) THEN ErrorV("TypeError")
         ELSE IF DateArgsOk(d, { "Year", "Month", "Day" }, 1)
              THEN DateV(Get(d, "Year").v, Get(d, "Month").v, Get(d, "Day").v)
              ELSE ErrorV("TypeError")
    ELSE ObjV(d)

\* commandbase.py: obj_hook, on the members of a decoded object
obj_hook(d) ==
    IF { "Year", "Month", "Day" } \subseteq Keys(d)
    THEN IF { "Spec", "Hour", "Minute", "Second" } \subseteq Keys(d)
         THEN IF DateArgsOk(d, { "Year", "Month", "Day" }, 1)
                    /\ DateArgsOk(d, { "Hour", "Minute", "Second" }, 0)
              THEN DateTimeV(Get(d, "Year").v, Get(d, "Month").v, Get(d, "Day").v,
                             Get(d, "Hour").v, Get(d, "Minute").v, Get(d, "Second").v, 0)
              ELSE ErrorV("TypeError")
         ELSE IF DateArgsOk(d, { "Year", "Month", "Day" }, 1)
              THEN DateV(Get(d, "Year").v, Get(d, "Month").v, Get(d, "Day").v)
              ELSE ErrorV("TypeError")
    ELSE ObjV(d)

\* json.loads(text, object_hook=obj_hook): the hook is applied to every
\* object, the innermost first; an exception of the hook ends the decoding
RECURSIVE Decode(_)
Decode(j) ==
    IF j.t # "object" THEN j
    ELSE LET d == [i \in 1 .. Len(j.members) |-> Field(j.members[i].k, Decode(j.members[i].v))]
         IN  IF \E i \in 1 .. Len(d) : d[i].v.t = "error"
             THEN ErrorV("TypeError")
             ELSE obj_hook(d)

(***************************************************************************)
(* The session: one connected ClientCmd, its caller and its server.        *)
(***************************************************************************)
VARIABLES
    stream,         \* bytes the server has sent and the client has not read
    closed,         \* the server has closed the connection
    nframes,        \* frames the server has sent
    answered,       \* UUIDs the server has sent a SuccessResult for
    outbuf,         \* the bytes of the client's last write (sock.sendall)
    timeout,        \* Client.setTimeout: the socket has a read deadline
    op,             \* the API call in progress: "none", "wait", "version"
    pc,             \* the _getPacket call in progress inside it
    need,           \* _getPacket: size
    packet,         \* _getPacket: packet
    first,          \* _getPacket: the next recv is the one of line 37
    msgSize,        \* waitCommand / getServerApiVersion: msgSize
    msgId,          \* waitCommand / getServerApiVersion: msgId
    awaited,        \* waitCommand: cmd.getUuid()
    ret,            \* what the last finished call returned or raised
    ncalls,         \* calls made
    frames,         \* history: the frames the server wrote that are not yet read to their end
    off,            \* history: bytes read of the first of them
    seen,           \* history: the frames the last reading call has read to their end
    decodeErrors,   \* history: a Result failed to decode
    timedOut        \* history: "no" timeout yet, "clean" ones only (nothing of a frame
                    \* was read), or a "torn" one (it interrupted a frame partly read)

sessVars ==
    << stream, closed, nframes, answered, outbuf, timeout, op, pc, need, packet, first,
       msgSize, msgId, awaited, ret, ncalls, frames, off, seen, decodeErrors, timedOut >>

(***************************************************************************)
(* One call of Client._getPacket(size) on its own, against a peer that     *)
(* writes bytes and may close.                                             *)
(***************************************************************************)
VARIABLES
    pk_size,        \* size
    pk_packet,      \* packet
    pk_first,       \* the next recv is the one of line 37
    pk_stream,      \* bytes written by the peer and not yet received
    pk_closed,      \* the peer has closed
    pk_state,       \* "idle", "reading", "returned" or "raised"
    pk_chunks,      \* history: what each recv returned, in order
    pk_written      \* history: number of bytes the peer has written

pkVars == << pk_size, pk_packet, pk_first, pk_stream, pk_closed, pk_state, pk_chunks, pk_written >>

(***************************************************************************)
(* One field mapping taken through json.dumps(cls=Encoder) and back        *)
(* through json.loads(object_hook=obj_hook).                               *)
(***************************************************************************)
VARIABLES
    co_pc,          \* "idle", "start", "encoded" or "decoded"
    co_m,           \* the field mapping
    co_json,        \* its encoding
    co_out          \* the decoding of that

coVars == << co_pc, co_m, co_json, co_out >>

(***************************************************************************)
(* One command object in the hands of its caller.                          *)
(***************************************************************************)
VARIABLES
    cm_class,       \* "idle", "CommandBase" or "CommandResult"
    cm_values,      \* self.values
    cm_uuid0,       \* what getUuid() returned right after construction
    cm_ret,         \* the last call on the object and what it returned
    cm_ops          \* set, setTimestamp and parse calls so far

cmVars == << cm_class, cm_values, cm_uuid0, cm_ret, cm_ops >>

(***************************************************************************)
(* The commands one caller constructs in one run.                          *)
(***************************************************************************)
VARIABLES
    cn_objs,        \* the values of the commands constructed so far, in order
    cn_clock        \* uuid.uuid1: the timestamp of the last UUID generated

cnVars == << cn_objs, cn_clock >>

(***************************************************************************)
(* One call of sendCommand, by the encoded text of its command.            *)
(***************************************************************************)
VARIABLES
    sn_text,        \* cmd.toJson(), as bytes
    sn_written,     \* what the call passed to sock.sendall (nothing if it did not)
    sn_ret          \* "none", "returned" or the exception raised

snVars == << sn_text, sn_written, sn_ret >>

(***************************************************************************)
(* One call of the command factory on a text received from the wire.       *)
(***************************************************************************)
VARIABLES
    fa_wire,        \* jsonStr, as the tree a JSON parser sees
    fa_call,        \* "idle", "start", "createCommand" or "createCommandResult"
    fa_out,         \* what the call returned or raised
    fa_clock        \* uuid.uuid1: the timestamp of the last UUID generated

faVars == << fa_wire, fa_call, fa_out, fa_clock >>

FaIdle ==
    /\ fa_wire = << >>
    /\ fa_call = "idle"
    /\ fa_out = << >>
    /\ fa_clock = 0

(***************************************************************************)
(* One addition a + b of two coordinate values of units.py.                *)
(***************************************************************************)
VARIABLES
    un_a,           \* self
    un_b,           \* other
    un_sum          \* what self + other returned (nothing before the call)

unVars == << un_a, un_b, un_sum >>

faOthers == << sessVars, pkVars, coVars, cmVars, cnVars, snVars, unVars >>

unOthers == << sessVars, pkVars, coVars, cmVars, cnVars, snVars, faVars >>

UnIdle ==
    /\ un_a = << >>
    /\ un_b = << >>
    /\ un_sum = << >>

vars == << sessVars, pkVars, coVars, cmVars, cnVars, snVars, faVars, unVars >>

\* What a specification of one part leaves alone.
sessOthers == << pkVars, coVars, cmVars, cnVars, snVars, faVars, unVars >>

pkOthers == << sessVars, coVars, cmVars, cnVars, snVars, faVars, unVars >>

coOthers == << sessVars, pkVars, cmVars, cnVars, snVars, faVars, unVars >>

cmOthers == << sessVars, pkVars, coVars, cnVars, snVars, faVars, unVars >>

cnOthers == << sessVars, pkVars, coVars, cmVars, snVars, faVars, unVars >>

snOthers == << sessVars, pkVars, coVars, cmVars, cnVars, faVars, unVars >>

SnIdle ==
    /\ sn_text = << >>
    /\ sn_written = << >>
    /\ sn_ret = "none"

CnIdle ==
    /\ cn_objs = << >>
    /\ cn_clock = 0

CmIdle ==
    /\ cm_class = "idle"
    /\ cm_values = << >>
    /\ cm_uuid0 = << >>
    /\ cm_ret = << >>
    /\ cm_ops = 0

CoIdle ==
    /\ co_pc = "idle"
    /\ co_m = << >>
    /\ co_json = << >>
    /\ co_out = << >>

PkIdle ==
    /\ pk_size = 0
    /\ pk_packet = << >>
    /\ pk_first = TRUE
    /\ pk_stream = << >>
    /\ pk_closed = FALSE
    /\ pk_state = "idle"
    /\ pk_chunks = << >>
    /\ pk_written = 0

NoRet == [kind |-> "none", cmd |-> 0, name |-> 0, uuid |-> 0, msg |-> 0, ver |-> 0, err |-> ""]

SessInit ==
    /\ stream = << >>
    /\ closed = FALSE
    /\ nframes = 0
    /\ answered = { }
    /\ outbuf = << >>
    /\ timeout = FALSE
    /\ op = "none"
    /\ pc = "idle"
    /\ need = 0
    /\ packet = << >>
    /\ first = TRUE
    /\ msgSize = 0
    /\ msgId = 0
    /\ awaited = 0
    /\ ret = NoRet
    /\ ncalls = 0
    /\ frames = << >>
    /\ off = 0
    /\ seen = << >>
    /\ decodeErrors = FALSE
    /\ timedOut = "no"

Init == SessInit /\ PkIdle /\ CoIdle /\ CmIdle /\ CnIdle /\ SnIdle /\ FaIdle /\ UnIdle

(***************************************************************************)
(* History: the read cursor against the frames the server wrote.  fr holds *)
(* the frames not yet read to their end, o the bytes read of the first     *)
(* one; the cursor is on a frame boundary when o = 0.  done collects the   *)
(* frames the cursor has passed.                                           *)
(***************************************************************************)
RECURSIVE Advance(_, _, _)
Advance(fr, o, done) ==
    IF fr # << >> /\ o >= Len(Head(fr))
    THEN Advance(Tail(fr), o - Len(Head(fr)), Append(done, Head(fr)))
    ELSE [frames |-> fr, off |-> o, done |-> done]

(***************************************************************************)
(* The server.                                                             *)
(***************************************************************************)
AnswerOf(f) == { u \in Uuids : f = ResultMessage(<< NameTok("SuccessResult"), u >>) }

ServerSend(f) ==
    /\ UNCHANGED sessOthers
    /\ ~closed
    /\ stream' = stream \o f
    /\ frames' = Append(frames, f)
    /\ nframes' = nframes + 1
    /\ answered' = answered \cup AnswerOf(f)
    /\ UNCHANGED << closed, outbuf, timeout, op, pc, need, packet, first, msgSize, msgId,
                    awaited, ret, ncalls, off, seen, decodeErrors, timedOut >>

\* The server goes away: it closes the connection, possibly after writing
\* only the first k bytes of a last frame.
ServerDies(f, k) ==
    /\ UNCHANGED sessOthers
    /\ ~closed
    /\ closed' = TRUE
    /\ stream' = stream \o SubSeq(f, 1, k)
    /\ frames' = IF k > 0 THEN Append(frames, f) ELSE frames
    /\ nframes' = IF k > 0 THEN nframes + 1 ELSE nframes
    /\ UNCHANGED << answered, outbuf, timeout, op, pc, need, packet, first, msgSize,
                    msgId, awaited, ret, ncalls, off, seen, decodeErrors, timedOut >>

(***************************************************************************)
(* The caller: the calls of the public API, one at a time.                 *)
(***************************************************************************)
Ctl(o, p, n, pk, f, ms, mi, aw) ==
    /\ op' = o
    /\ pc' = p
    /\ need' = n
    /\ packet' = pk
    /\ first' = f
    /\ msgSize' = ms
    /\ msgId' = mi
    /\ awaited' = aw

\* The next _getPacket(n) of the call in progress.
Goto(p, n, ms, mi) == Ctl(op, p, n, << >>, TRUE, ms, mi, awaited)

\* The call in progress ends: it returns, or raises, r.
Finish(r) == Ctl("none", "idle", 0, << >>, TRUE, 0, 0, 0) /\ ret' = r

\* clientcmd.py: sendCommand(cmd)
CallSendCommand(c) ==
    /\ UNCHANGED sessOthers
    /\ op = "none"
    /\ ncalls' = ncalls + 1
    /\ outbuf' = CommandMessage(c)
    /\ ret' = [NoRet EXCEPT !.kind = "sent", !.cmd = c]
    /\ UNCHANGED << stream, closed, nframes, answered, timeout, op, pc, need, packet, first,
                    msgSize, msgId, awaited, frames, off, seen, decodeErrors, timedOut >>

\* clientcmd.py: waitCommand(cmd), up to its first read
CallWaitCommand(c) ==
    /\ UNCHANGED sessOthers
    /\ op = "none"
    /\ ncalls' = ncalls + 1
    /\ Ctl("wait", "size", 2, << >>, TRUE, 0, 0, c)
    /\ ret' = NoRet
    /\ seen' = << >>
    /\ UNCHANGED << stream, closed, nframes, answered, outbuf, timeout, frames, off,
                    decodeErrors, timedOut >>

\* clientcmd.py: getServerApiVersion(), up to its first read
CallGetServerApiVersion ==
    /\ UNCHANGED sessOthers
    /\ op = "none"
    /\ ncalls' = ncalls + 1
    /\ outbuf' = ApiVersionMessage(ClientApiVersion)
    /\ Ctl("version", "size", 2, << >>, TRUE, 0, 0, 0)
    /\ ret' = NoRet
    /\ seen' = << >>
    /\ UNCHANGED << stream, closed, nframes, answered, timeout, frames, off, decodeErrors, timedOut >>

\* client.py: setTimeout(time); time = None is the blocking mode
CallSetTimeout(t) ==
    /\ UNCHANGED sessOthers
    /\ op = "none"
    /\ timeout # t
    /\ timeout' = t
    /\ UNCHANGED << stream, closed, nframes, answered, outbuf, op, pc, need, packet, first,
                    msgSize, msgId, awaited, ret, ncalls, frames, off, seen, decodeErrors, timedOut >>

(***************************************************************************)
(* The loops of waitCommand and getServerApiVersion, from the return of    *)
(* one _getPacket (with packet p) to the call of the next.                 *)
(***************************************************************************)
SkipLenWithKind(size) == size

SkipLenNoKind(size) == size - 2

\* clientcmd.py lines 38 and 62: the payload bytes of a frame that is skipped
SkipLen(size) == size - 1

JsonLenNoTerminator(p) == UnpackI(p) - 1

\* clientcmd.py lines 56 and 57: the bytes read as the text of a Result
JsonLen(p) == UnpackI(p)

MatchesAnyResult(cmdUuid, result) == TRUE

\* clientcmd.py line 59
Matches(cmdUuid, result) == cmdUuid = result.related

Raised(e) == [NoRet EXCEPT !.kind = "error", !.cmd = awaited, !.err = e]

Continue(p) ==
    CASE pc = "size" ->
            Goto("id", 1, UnpackH(p), msgId) /\ UNCHANGED << ret, decodeErrors >>
      [] pc = "id" /\ op = "wait" ->
            /\ IF p[1] = MsgIdResult
               THEN Goto("jsonlen", 4, msgSize, p[1])
               ELSE Goto("skip", SkipLen(msgSize), msgSize, p[1])
            /\ UNCHANGED << ret, decodeErrors >>
      [] pc = "id" /\ op = "version" ->
            /\ IF p[1] = MsgIdApiVersion
               THEN Goto("ver", 4, msgSize, p[1])
               ELSE Goto("skip", SkipLen(msgSize), msgSize, p[1])
            /\ UNCHANGED << ret, decodeErrors >>
      [] pc = "jsonlen" ->
            Goto("json", JsonLen(p), msgSize, msgId) /\ UNCHANGED << ret, decodeErrors >>
      [] pc = "json" ->
            LET result == createCommandResult(SubSeq(p, 1, Len(p) - 1)) IN
            IF result.err # ""
            THEN Finish(Raised(result.err)) /\ decodeErrors' = TRUE
            ELSE IF Matches(awaited, result)
            THEN /\ Finish([NoRet EXCEPT !.kind = "result", !.cmd = awaited,
                                         !.name = result.name, !.uuid = result.related,
                                         !.msg = result.msg])
                 /\ UNCHANGED decodeErrors
            ELSE Goto("size", 2, msgSize, msgId) /\ UNCHANGED << ret, decodeErrors >>
      [] pc = "skip" ->
            Goto("size", 2, msgSize, msgId) /\ UNCHANGED << ret, decodeErrors >>
      [] pc = "ver" ->
            /\ Finish([NoRet EXCEPT !.kind = "version", !.ver = UnpackUI(p)])
            /\ UNCHANGED decodeErrors

\* One sock.recv of the _getPacket in progress, and what follows it up to
\* the next recv.  A negative size makes recv raise ValueError.
GetPacketRecv ==
    /\ UNCHANGED sessOthers
    /\ op # "none"
    /\ LET ask == GetPacketAsk(packet, first, need) IN
       IF ask < 0
       THEN /\ Finish(Raised("ValueError"))
            /\ UNCHANGED << stream, frames, off, seen, decodeErrors >>
       ELSE \E chunk \in RecvChunks(stream, closed, ask) :
            LET r == GetPacketStep(packet, first, need, chunk)
                a == Advance(frames, off + Len(chunk), << >>)
            IN  /\ stream' = SubSeq(stream, Len(chunk) + 1, Len(stream))
                /\ frames' = a.frames
                /\ off' = a.off
                /\ seen' = seen \o a.done
                /\ IF r.raised
                   THEN Finish(Raised("ConnectionClosed")) /\ UNCHANGED decodeErrors
                   ELSE IF r.done
                   THEN Continue(r.packet)
                   ELSE /\ Ctl(op, pc, need, r.packet, FALSE, msgSize, msgId, awaited)
                        /\ UNCHANGED << ret, decodeErrors >>
    /\ UNCHANGED << closed, nframes, answered, outbuf, timeout, ncalls, timedOut >>

\* The read deadline elapses in a recv that is waiting for bytes: recv raises
\* socket.timeout, which ends the call; what _getPacket had read is dropped.
RecvTimeout ==
    /\ UNCHANGED sessOthers
    /\ op # "none"
    /\ timeout
    /\ GetPacketAsk(packet, first, need) > 0
    /\ ~(closed /\ stream = << >>)
    /\ Finish(Raised("Timeout"))
    /\ timedOut' = IF timedOut = "torn" \/ pc # "size" \/ packet # << >> THEN "torn" ELSE "clean"
    /\ UNCHANGED << stream, closed, nframes, answered, outbuf, timeout, ncalls, frames, off,
                    seen, decodeErrors >>

(***************************************************************************)
(* The session with a socket in blocking mode (no setTimeout): a server    *)
(* that sends any frames and may go away, a caller that makes any calls.   *)
(***************************************************************************)
ServerSends == nframes < MaxFrames /\ \E f \in ServerFrames : ServerSend(f)

ServerGoes ==
    \E f \in ServerFrames :
        \E k \in 0 .. (IF nframes < MaxFrames THEN Len(f) - 1 ELSE 0) : ServerDies(f, k)

CallerSends == ncalls < MaxCalls /\ \E c \in Uuids : CallSendCommand(c)

CallerWaits == ncalls < MaxCalls /\ \E c \in Uuids : CallWaitCommand(c)

CallerAsksVersion == ncalls < MaxCalls /\ CallGetServerApiVersion

Next ==
    \/ ServerSends
    \/ ServerGoes
    \/ CallerSends
    \/ CallerWaits
    \/ CallerAsksVersion
    \/ GetPacketRecv

Spec == Init /\ [][Next]_vars

(***************************************************************************)
(* The same session with a caller that sets a read deadline                *)
(* (Client.setTimeout), after which a recv that waits may time out, and    *)
(* waits for commands; the server stays connected.                         *)
(***************************************************************************)
CallerSetsTimeout == \E t \in BOOLEAN : CallSetTimeout(t)

NextTimeout ==
    \/ ServerSends
    \/ CallerWaits
    \/ CallerSetsTimeout
    \/ GetPacketRecv
    \/ RecvTimeout

SpecTimeout == Init /\ [][NextTimeout]_vars

(***************************************************************************)
(* The session of a caller that asks for the server's version, with or     *)
(* without a read deadline, while the server sends Results, frames of      *)
(* other kinds and version replies, and may go away.                       *)
(***************************************************************************)
VersionFrames ==
    { ResultMessage(<< NameTok("SuccessResult"), 1 >>),
      Message(<< MsgIdCommand >>),
      Message(<< MsgIdCommand, 5 >>),
      ApiVersionMessage(7) }

ServerSendsVersion == nframes < MaxFrames /\ \E f \in VersionFrames : ServerSend(f)

ServerGoesVersion ==
    \E f \in VersionFrames :
        \E k \in 0 .. (IF nframes < MaxFrames THEN Len(f) - 1 ELSE 0) : ServerDies(f, k)

NextVersion ==
    \/ ServerSendsVersion
    \/ ServerGoesVersion
    \/ CallerAsksVersion
    \/ CallerSetsTimeout
    \/ GetPacketRecv
    \/ RecvTimeout

SpecVersion == Init /\ [][NextVersion]_vars

(***************************************************************************)
(* Two commands in flight: the caller sends command 1 and command 2, then  *)
(* waits for 1, then for 2.  The server answers each command once it has   *)
(* been sent, with one SuccessResult, in either order, may push one frame  *)
(* of another kind at any time, and stays connected.                       *)
(***************************************************************************)
Script ==
    << [call |-> "send", cmd |-> 1], [call |-> "send", cmd |-> 2],
       [call |-> "wait", cmd |-> 1], [call |-> "wait", cmd |-> 2] >>

ScriptSent == { Script[i].cmd : i \in { j \in 1 .. Len(Script) : j <= ncalls /\ Script[j].call = "send" } }

PairCallerSends ==
    /\ ncalls < Len(Script)
    /\ Script[ncalls + 1].call = "send"
    /\ CallSendCommand(Script[ncalls + 1].cmd)

PairCallerWaits ==
    /\ ncalls < Len(Script)
    /\ Script[ncalls + 1].call = "wait"
    /\ CallWaitCommand(Script[ncalls + 1].cmd)

PairServerAnswers ==
    \E u \in ScriptSent \ answered : ServerSend(ResultMessage(<< NameTok("SuccessResult"), u >>))

PairServerPushes ==
    /\ nframes = Cardinality(answered)
    /\ ServerSend(Message(<< MsgIdCommand, 5 >>))

NextPair ==
    \/ PairCallerSends
    \/ PairCallerWaits
    \/ PairServerAnswers
    \/ PairServerPushes
    \/ GetPacketRecv

SpecPair == Init /\ [][NextPair]_vars

(***************************************************************************)
(* The session with a server whose frames are well delimited (the length   *)
(* field counts the kind byte and the payload) but whose payload need not  *)
(* be consistent with it: a Result whose byteLength is smaller or larger   *)
(* than the text that follows in the frame, a version reply with more than *)
(* four bytes.                                                             *)
(***************************************************************************)
\* a Result frame whose byteLength field is n, whatever the text is
ResultMessageWithLength(n, text) == Message(<< MsgIdResult >> \o PackI(n) \o text \o << 0 >>)

FramingFrames ==
    { ResultMessage(<< NameTok("SuccessResult"), 1 >>),
      ResultMessageWithLength(3, << NameTok("SuccessResult"), 1, 0 >>),
      ResultMessageWithLength(4, << NameTok("SuccessResult"), 1 >>),
      ApiVersionMessage(7),
      Message(<< MsgIdApiVersion >> \o PackI(7) \o << 0 >>) }

ServerSendsFraming == nframes < MaxFrames /\ \E f \in FramingFrames : ServerSend(f)

NextFraming ==
    \/ ServerSendsFraming
    \/ CallerWaits
    \/ CallerAsksVersion
    \/ GetPacketRecv

SpecFraming == Init /\ [][NextFraming]_vars

(***************************************************************************)
(* commandresult.py: isSuccess and getMessage of a Result that waitCommand *)
(* returned.  The failure types of skydelsdx.commands answer isSuccess()   *)
(* with False and errorMsg() with their error message (the FailedCommand   *)
(* protocol); every other Result type inherits isSuccess of CommandResult. *)
(***************************************************************************)
FailureToks == { NameTok("FailureResult") }

isSuccessOfCommandResult(r) == TRUE

isSuccess(r) == r.name \notin FailureToks

errorMsg(r) == [by |-> "errorMsg", of |-> r.msg]

getMessage(r) ==
    IF ~isSuccess(r) THEN errorMsg(r)
    ELSE IF r.name = NameTok("SuccessResult") THEN [by |-> "Success", of |-> 0]
    ELSE [by |-> "toString", of |-> r.name]

(***************************************************************************)
(* The session of a caller that waits for commands while the server sends  *)
(* Results of every type: successes, failures with an error message, and   *)
(* Results of another type.                                                *)
(***************************************************************************)
ErrMsgs == { 66, 67 }

AnswerTexts ==
    { << NameTok("SuccessResult"), u >> : u \in Uuids }
        \cup { << NameTok("GetPositionResult"), u >> : u \in Uuids }
        \cup { << NameTok("FailureResult"), u, m >> : u \in Uuids, m \in ErrMsgs }

ServerAnswers == nframes < MaxFrames /\ \E t \in AnswerTexts : ServerSend(ResultMessage(t))

NextAnswers ==
    \/ ServerAnswers
    \/ CallerWaits
    \/ GetPacketRecv

SpecAnswers == Init /\ [][NextAnswers]_vars

(***************************************************************************)
(* Encoding and decoding on their own: a field mapping with the reserved   *)
(* fields CmdName and CmdUuid and up to MaxPayload payload fields, whose   *)
(* values are primitives, dates, date-times and nested commands.           *)
(***************************************************************************)
NameOk == StrV(<< "O", "k" >>)

UuidOf(n) == StrV(<< "{", ToString(n), "}" >>)

Reserved(n) == << Field("CmdName", NameOk), Field("CmdUuid", UuidOf(n)) >>

NestedCommands ==
    { CmdV(Reserved(2)),
      CmdV(Reserved(2) \o << Field("Year", IntV(1)), Field("Month", IntV(1)), Field("Day", IntV(1)) >>) }

PayloadValues ==
    { IntV(1), DateV(1, 1, 1), DateTimeV(1, 1, 1, 0, 0, 0, 0), DateTimeV(1, 1, 1, 0, 0, 0, 1) }
        \cup NestedCommands

PayloadKeys == << "Lat", "Year", "Month", "Day", "Cmd" >>

\* the payloads: up to MaxPayload of the keys, in the order of PayloadKeys
RECURSIVE Payloads(_, _)
Payloads(from, room) ==
    IF from > Len(PayloadKeys) \/ room = 0 THEN { << >> }
    ELSE Payloads(from + 1, room)
            \cup { << Field(PayloadKeys[from], v) >> \o rest :
                        v \in PayloadValues, rest \in Payloads(from + 1, room - 1) }

FieldMappings == { DictV(Reserved(1) \o pl) : pl \in Payloads(1, MaxPayload) }

CoInit ==
    /\ co_pc = "start"
    /\ co_m \in FieldMappings
    /\ co_json = IntV(0)
    /\ co_out = IntV(0)

\* commandbase.py: toJson
CoEncode ==
    /\ co_pc = "start"
    /\ co_json' = Encode(co_m)
    /\ co_pc' = "encoded"
    /\ UNCHANGED << co_m, co_out >>
    /\ UNCHANGED coOthers

\* commandbase.py: parse, commandfactory.py: createCommand (json.loads)
CoDecode ==
    /\ co_pc = "encoded"
    /\ co_out' = Decode(co_json)
    /\ co_pc' = "decoded"
    /\ UNCHANGED << co_m, co_json >>
    /\ UNCHANGED coOthers

NextCodec ==
    \/ CoEncode
    \/ CoDecode

InitCodec == SessInit /\ PkIdle /\ CoInit /\ CmIdle /\ CnIdle /\ SnIdle /\ FaIdle /\ UnIdle

SpecCodec == InitCodec /\ [][NextCodec]_vars

\* Deep equality of a value and a decoded value: equal primitives, dates and
\* date-times; a mapping (a dict, a command) against a field-mapping wrapper
\* with the same fields, name by name and value by value.
RECURSIVE SameValue(_, _)
SameValue(a, b) ==
    IF a.t \in { "dict", "cmd", "obj" }
    THEN /\ b.t = "obj"
         /\ Len(b.values) = Len(a.values)
         /\ \A i \in 1 .. Len(a.values) :
                /\ b.values[i].k = a.values[i].k
                /\ SameValue(a.values[i].v, b.values[i].v)
    ELSE a = b

\* C6 as claimed: decoding the encoding of a valid field mapping yields a
\* mapping deeply equal to it.
C6_RoundTrip == co_pc = "decoded" => SameValue(co_m, co_out)

(***************************************************************************)
(* A command object: constructed by CommandBase(cmd_name, target_id) or    *)
(* CommandResult(cmd_name), then used through its public operations and    *)
(* handed to the session.                                                  *)
(***************************************************************************)
IsMapping(values) == values.t \in { "dict", "obj" }

\* values[key] = val on a dict or a MakeObj: an existing key keeps its place
SetItem(values, key, val) ==
    IF key \in Keys(values.values)
    THEN [values EXCEPT !.values =
            [i \in 1 .. Len(values.values) |->
                IF values.values[i].k = key THEN Field(key, val) ELSE values.values[i]]]
    ELSE [values EXCEPT !.values = Append(values.values, Field(key, val))]

\* values[key]
GetItem(values, key) ==
    IF ~IsMapping(values) THEN ErrorV("TypeError")
    ELSE IF key \notin Keys(values.values) THEN ErrorV("KeyError")
    ELSE Get(values.values, key)

\* commandbase.py: CommandBase.__init__, with the UUID that uuid.uuid1()
\* yields; an empty (or absent) name or target is falsy
Construct(cmd_name, target_id, uuid) ==
    DictV((IF cmd_name # << >>
           THEN << Field("CmdName", StrV(cmd_name)), Field("CmdUuid", uuid) >>
           ELSE << >>)
          \o (IF target_id # << >> THEN << Field("CmdTargetId", StrV(target_id)) >> ELSE << >>))

getName(values) == GetItem(values, "CmdName")

getUuid(values) == GetItem(values, "CmdUuid")

\* str(value): the characters of a string, one element for any other value
Str(value) ==
    CASE value.t = "str" -> value.s
      [] value.t = "int" -> << ToString(value.v) >>
      [] OTHER -> << ToString(value) >>

\* the fields toString leaves out
Omitted(class) ==
    IF class = "CommandResult" THEN { "CmdName", "CmdUuid", "RelatedCommand" }
    ELSE { "CmdName", "CmdUuid" }

\* the loop of toString: key + ": " + str(value) + ", " for every field
\* that is not left out
RECURSIVE Rendered(_, _)
Rendered(fields, omit) ==
    IF fields = << >> THEN << >>
    ELSE (IF Head(fields).k \in omit THEN << >>
          ELSE << Head(fields).k, ":", " " >> \o Str(Head(fields).v) \o << ",", " " >>)
         \o Rendered(Tail(fields), omit)

\* commandbase.py: CommandBase.toString, commandresult.py:
\* CommandResult.toString
toString(class, values) ==
    IF ~IsMapping(values) THEN ErrorV("TypeError")
    ELSE IF getName(values).t # "str" THEN getName(values)
    ELSE IF Len(values.values) = 2
         THEN StrV(getName(values).s \o << "(", ")" >>)
         ELSE LET cmdStr == getName(values).s \o << "(" >>
                                \o Rendered(values.values, Omitted(class))
              IN  StrV(SubSeq(cmdStr, 1, Len(cmdStr) - 2) \o << ")" >>)

\* commandbase.py: CommandBase.toJson
toJson(values) == Encode(values)

Names == { << >>, << "O", "k" >> }

Targets == { << >>, << "T" >> }

Classes == { "CommandBase", "CommandResult" }

SetKeys == { "Lat", "Lon", "CmdUuid", "RelatedCommand" }

SetValues == { IntV(1), StrV(<< "x" >>) }

Timestamps == { IntV(5) }

\* what the caller hands to parse: encoded field mappings
ParseTexts ==
    { Encode(DictV(fields)) : fields \in
        { Reserved(1),
          Reserved(9),
          << Field("CmdName", NameOk) >>,
          << Field("CmdName", NameOk), Field("Lat", IntV(1)) >>,
          Reserved(9) \o << Field("RelatedCommand", StrV(<< "{", "}" >>)) >>,
          Reserved(9) \o << Field("RelatedCommand", StrV(<< "{", "}" >>)), Field("Lat", IntV(1)) >>,
          Reserved(9) \o << Field("Year", IntV(1)), Field("Month", IntV(1)), Field("Day", IntV(1)) >> } }

Ret(call, val) == [op |-> call, val |-> val]

CmInit ==
    /\ cm_class \in Classes
    /\ \E cmd_name \in Names, target_id \in Targets :
          /\ cm_class = "CommandResult" => target_id = << >>
          /\ cm_values = Construct(cmd_name, target_id, UuidOf(1))
    /\ cm_uuid0 = getUuid(cm_values)
    /\ cm_ret = Ret("init", IntV(0))
    /\ cm_ops = 0

\* commandbase.py: CommandBase.set
CmSet(key, val) ==
    /\ cm_ops < MaxOps
    /\ cm_ops' = cm_ops + 1
    /\ IF IsMapping(cm_values)
       THEN /\ cm_values' = SetItem(cm_values, key, val)
            /\ cm_ret' = Ret("set", IntV(0))
       ELSE /\ cm_ret' = Ret("set", ErrorV("TypeError"))
            /\ UNCHANGED cm_values
    /\ UNCHANGED << cm_class, cm_uuid0 >>
    /\ UNCHANGED cmOthers

\* commandbase.py: CommandBase.setTimestamp
CmSetTimestamp(timestamp) ==
    /\ cm_ops < MaxOps
    /\ cm_ops' = cm_ops + 1
    /\ IF IsMapping(cm_values)
       THEN /\ cm_values' = SetItem(cm_values, "CmdTimestamp", timestamp)
            /\ cm_ret' = Ret("setTimestamp", IntV(0))
       ELSE /\ cm_ret' = Ret("setTimestamp", ErrorV("TypeError"))
            /\ UNCHANGED cm_values
    /\ UNCHANGED << cm_class, cm_uuid0 >>
    /\ UNCHANGED cmOthers

\* commandbase.py: CommandBase.parse
CmParse(jsonStr) ==
    /\ cm_ops < MaxOps
    /\ cm_ops' = cm_ops + 1
    /\ IF Decode(jsonStr).t = "error"
       THEN /\ cm_ret' = Ret("parse", Decode(jsonStr))
            /\ UNCHANGED cm_values
       ELSE /\ cm_values' = Decode(jsonStr)
            /\ cm_ret' = Ret("parse", IntV(0))
    /\ UNCHANGED << cm_class, cm_uuid0 >>
    /\ UNCHANGED cmOthers

\* commandbase.py: CommandBase.toJson
CmToJson ==
    /\ cm_ret' = Ret("toJson", toJson(cm_values))
    /\ UNCHANGED << cm_class, cm_values, cm_uuid0, cm_ops >>
    /\ UNCHANGED cmOthers

\* commandbase.py: CommandBase.toString, commandresult.py:
\* CommandResult.toString
CmToString ==
    /\ cm_ret' = Ret("toString", toString(cm_class, cm_values))
    /\ UNCHANGED << cm_class, cm_values, cm_uuid0, cm_ops >>
    /\ UNCHANGED cmOthers

\* clientcmd.py: sendCommand, as far as the command is concerned: its
\* encoding is taken and written
CmSendCommand ==
    /\ cm_ret' = Ret("sendCommand", toJson(cm_values))
    /\ UNCHANGED << cm_class, cm_values, cm_uuid0, cm_ops >>
    /\ UNCHANGED cmOthers

\* clientcmd.py: waitCommand, as far as the command is concerned: its Uuid
\* is read and compared
CmWaitCommand ==
    /\ cm_ret' = Ret("waitCommand", getUuid(cm_values))
    /\ UNCHANGED << cm_class, cm_values, cm_uuid0, cm_ops >>
    /\ UNCHANGED cmOthers

CallerSets == \E key \in SetKeys, val \in SetValues : CmSet(key, val)

CallerSetsTimestamp == \E timestamp \in Timestamps : CmSetTimestamp(timestamp)

CallerParses == \E jsonStr \in ParseTexts : CmParse(jsonStr)

NextCmd ==
    \/ CallerSets
    \/ CallerSetsTimestamp
    \/ CallerParses
    \/ CmToJson
    \/ CmToString
    \/ CmSendCommand
    \/ CmWaitCommand

InitCmd == SessInit /\ PkIdle /\ CoIdle /\ CmInit /\ CnIdle /\ SnIdle /\ FaIdle /\ UnIdle

SpecCmd == InitCmd /\ [][NextCmd]_vars

\* C7 as claimed: whatever the caller has done with a command that was
\* given a Uuid at construction, getUuid() returns that Uuid.
C7_UuidNeverMutated == cm_uuid0.t = "str" => getUuid(cm_values) = cm_uuid0

\* the rendering C10 describes: Name( then "key: value" for every field that
\* is not left out, in field order, separated by ", ", then )
RECURSIVE Joined(_, _)
Joined(fields, omit) ==
    IF fields = << >> THEN << >>
    ELSE IF Head(fields).k \in omit THEN Joined(Tail(fields), omit)
    ELSE LET rest == Joined(Tail(fields), omit)
         IN  << Head(fields).k, ":", " " >> \o Str(Head(fields).v)
                \o (IF rest = << >> THEN << >> ELSE << ",", " " >> \o rest)

\* C10 as claimed: toString of a command or a Result is Name(field1:
\* value1, ...) over the fields that are not left out, and exactly Name()
\* when there are none.
C10_ToStringRendersFields ==
    (cm_ret.op = "toString" /\ IsMapping(cm_values) /\ getName(cm_values).t = "str")
        => cm_ret.val = StrV(getName(cm_values).s \o << "(" >>
                                \o Joined(cm_values.values, Omitted(cm_class)) \o << ")" >>)

(***************************************************************************)
(* A caller that constructs commands, CommandBase(cmd_name, target_id)     *)
(* with any of its arguments left out, one after the other.  uuid.uuid1()  *)
(* is time based and never yields the timestamp it yielded before.         *)
(***************************************************************************)
CnConstruct(cmd_name, target_id) ==
    /\ Len(cn_objs) < MaxObjs
    /\ cn_clock' = IF cmd_name # << >> THEN cn_clock + 1 ELSE cn_clock
    /\ cn_objs' = Append(cn_objs, Construct(cmd_name, target_id, UuidOf(cn_clock + 1)))
    /\ UNCHANGED cnOthers

CallerConstructs == \E cmd_name \in Names, target_id \in Targets : CnConstruct(cmd_name, target_id)

NextConstruct == CallerConstructs

SpecConstruct == Init /\ [][NextConstruct]_vars

\* C13 as claimed: every command constructed has a UUID, and no two of them
\* have the same.
C13_EveryCommandHasItsOwnUuid ==
    /\ \A i \in 1 .. Len(cn_objs) : getUuid(cn_objs[i]).t = "str"
    /\ \A i, j \in 1 .. Len(cn_objs) : i # j => getUuid(cn_objs[i]) # getUuid(cn_objs[j])

(***************************************************************************)
(* sendCommand on its own: a caller that sends commands whose encoded text *)
(* is short, or about as long as a frame can hold.  The text is ASCII      *)
(* (json.dumps escapes everything else) and holds no NUL.                  *)
(***************************************************************************)
TextLens == (0 .. MaxShort) \cup ((MaxH - 2 - MaxOver) .. (MaxH - 2 + MaxOver))

TextOfLen(n) == [i \in 1 .. n |-> 120]

\* clientcmd.py: _sendMessage
SendMessage(message) ==
    IF PackHFits(Len(message))
    THEN [raised |-> "", written |-> PackH(Len(message)) \o message]
    ELSE [raised |-> "struct.error", written |-> << >>]

\* clientcmd.py: sendCommand
SnSendCommand(json_str) ==
    LET message == << MsgIdCommand >> \o (json_str \o << 0 >>)
        sent == SendMessage(message)
    IN  /\ sn_text' = json_str
        /\ sn_written' = sent.written
        /\ sn_ret' = IF sent.raised = "" THEN "returned" ELSE sent.raised
        /\ UNCHANGED snOthers

CallerSendsText == \E n \in TextLens : SnSendCommand(TextOfLen(n))

NextSend == CallerSendsText

SpecSend == Init /\ [][NextSend]_vars

\* What sendCommand wrote is one frame for the text: the length of what
\* follows it, the kind Command, the text, one NUL.
OneFrame ==
    /\ Len(sn_written) = Len(sn_text) + 4
    /\ UnpackH(SubSeq(sn_written, 1, 2)) = Len(sn_written) - 2
    /\ sn_written[3] = MsgIdCommand
    /\ SubSeq(sn_written, 4, Len(sn_written) - 1) = sn_text
    /\ sn_written[Len(sn_written)] = 0

\* C15 as claimed: whatever the length of the encoded text, sendCommand
\* writes exactly one frame for it.
C15_AlwaysOneFrame == sn_ret # "none" => (sn_ret = "returned" /\ OneFrame)

\* C15 amended: for a text of at most MaxH - 2 bytes sendCommand returns and
\* has written exactly one frame for it; for a longer text it raises
\* struct.error and has written nothing; so a length field never wraps and
\* no partial frame is written.
C15_OneFrameOrNothing ==
    /\ sn_ret \in { "none", "returned", "struct.error" }
    /\ sn_ret = "returned" => (OneFrame /\ Len(sn_text) <= MaxH - 2)
    /\ sn_ret = "struct.error" => (sn_written = << >> /\ Len(sn_text) > MaxH - 2)

\* C15 witness: the longest text that fits was sent, with a length field of
\* all ones.
C15_Witness ==
    /\ sn_ret = "returned"
    /\ Len(sn_text) = MaxH - 2
    /\ SubSeq(sn_written, 1, 2) = << 255, 255 >>

(***************************************************************************)
(* commandfactory.py on decoded field mappings.  A type is known by the    *)
(* namespace it was found in (the path of its plugin module, empty for     *)
(* skydelsdx.commands) and its name.  The names of commands and modules    *)
(* are single units of a string; a TargetId joins module names with ".".   *)
(***************************************************************************)
\* the command classes of skydelsdx.commands
CoreCommands == { "SetPosition", "GetPower", "SuccessResult" }

\* the modules under skydelsdx.plugins, by their path, the root included
PluginModules == { << >>, << "A" >>, << "A", "B" >> }

\* the command classes of the module commands of a plugin module
PluginCommands(path) ==
    CASE path = << "A" >> -> { "GetPower", "PlugCmd" }
      [] path = << "A", "B" >> -> { "Deep" }
      [] OTHER -> { }

Class(ns, name) == [ns |-> ns, name |-> name]

NoClass == [err |-> "AttributeError", class |-> Class(<< >>, "")]

\* the name of a string of one unit, no name otherwise
UnitOf(chars) == IF Len(chars) = 1 THEN chars[1] ELSE ""

\* str.split("."): the module names of a TargetId
RECURSIVE Split(_)
Split(chars) ==
    IF \A i \in 1 .. Len(chars) : chars[i] # "." THEN << UnitOf(chars) >>
    ELSE LET dot == CHOOSE i \in 1 .. Len(chars) :
                        chars[i] = "." /\ \A j \in 1 .. i - 1 : chars[j] # "."
         IN  << UnitOf(SubSeq(chars, 1, dot - 1)) >> \o Split(SubSeq(chars, dot + 1, Len(chars)))

\* commandfactory.py: classFromName, on the name as a string
coreClassFromName(className) ==
    IF className \in CoreCommands
    THEN [err |-> "", class |-> Class(<< >>, className)]
    ELSE NoClass

\* commandfactory.py: the loop of targetClassFromName, one getattr per
\* module name, starting from the module at path
RECURSIVE WalkModules(_, _)
WalkModules(path, modules) ==
    IF modules = << >> THEN [ok |-> TRUE, path |-> path]
    ELSE IF Append(path, Head(modules)) \in PluginModules
    THEN WalkModules(Append(path, Head(modules)), Tail(modules))
    ELSE [ok |-> FALSE, path |-> path]

targetClassFromNameOrCore(className, targetId) ==
    LET attribute == WalkModules(<< >>, Split(targetId)) IN
    IF attribute.ok /\ className \in PluginCommands(attribute.path)
    THEN [err |-> "", class |-> Class(attribute.path, className)]
    ELSE coreClassFromName(className)

\* commandfactory.py: targetClassFromName
targetClassFromName(className, targetId) ==
    LET attribute == WalkModules(<< >>, Split(targetId)) IN
    IF attribute.ok /\ className \in PluginCommands(attribute.path)
    THEN [err |-> "", class |-> Class(attribute.path, className)]
    ELSE NoClass

Object(class, values) == [class |-> class, values |-> values]

NoObject == Object(Class(<< >>, ""), IntV(0))

Created(err, obj) == [err |-> err, obj |-> obj, command |-> NoObject]

AttachAfterInit(values) == SetItem(values, "CmdUuid", UuidOf(1))

\* commandfactory.py lines 36 to 39: the values of the instance that is
\* made without its constructor
Attach(values) == values

\* commandfactory.py: createCommand, on the text as a JSON tree
createCommand(jsonStr) ==
    LET values == Decode(jsonStr) IN
    IF values.t = "error" THEN Created(values.e, NoObject)
    ELSE IF values.t # "obj" THEN Created("TypeError", NoObject)
    ELSE IF "CmdName" \notin Keys(values.values) THEN Created("KeyError", NoObject)
    ELSE LET class_name == Get(values.values, "CmdName")
             MyClass ==
                IF class_name.t # "str" THEN [err |-> "TypeError", class |-> Class(<< >>, "")]
                ELSE IF "CmdTargetId" \in Keys(values.values)
                THEN IF Get(values.values, "CmdTargetId").t # "str"
                     THEN NoClass
                     ELSE targetClassFromName(UnitOf(class_name.s),
                                              Get(values.values, "CmdTargetId").s)
                ELSE coreClassFromName(UnitOf(class_name.s))
         IN  IF MyClass.err # "" THEN Created(MyClass.err, NoObject)
             ELSE Created("", Object(MyClass.class, Attach(values)))

\* json.loads of a value that is handed over as a text
createCommandOfText(value) ==
    IF value.t = "jsonstr" THEN createCommand(value.j)
    ELSE IF value.t = "str" THEN Created("JSONDecodeError", NoObject)
    ELSE Created("TypeError", NoObject)

\* commandfactory.py: createCommandResult, on the text as a JSON tree
createCommandResultOfTree(jsonStr) ==
    LET commandResult == createCommand(jsonStr) IN
    IF commandResult.err # "" THEN commandResult
    ELSE IF "RelatedCommand" \notin Keys(commandResult.obj.values.values)
    THEN Created("KeyError", NoObject)
    ELSE LET related == createCommandOfText(Get(commandResult.obj.values.values, "RelatedCommand"))
         IN  IF related.err # "" THEN related
             ELSE [commandResult EXCEPT !.command = related.obj]

(***************************************************************************)
(* The factory on its own: one text from the wire, handed to createCommand *)
(* or to createCommandResult.  The texts are commands and Results of types *)
(* that exist in the core set, in a plugin, in both or nowhere, with and   *)
(* without a TargetId and a timestamp, and texts that are no command.      *)
(***************************************************************************)
WireNames == { "SetPosition", "GetPower", "PlugCmd", "Deep", "Nope", "SuccessResult" }

WireTargets == { << "A" >>, << "A", ".", "B" >>, << "A", ".", "C" >>, << "C" >>, << >> }

OptionalTarget == { << >> } \cup { << Field("CmdTargetId", StrV(target)) >> : target \in WireTargets }

OptionalTimestamp == { << >>, << Field("CmdTimestamp", IntV(5)) >> }

WireCommand(name, n, rest) ==
    JObject(<< Field("CmdName", StrV(<< name >>)), Field("CmdUuid", UuidOf(n)) >> \o rest)

CommandWires ==
    { WireCommand(name, 7, target \o timestamp) :
        name \in WireNames, target \in OptionalTarget, timestamp \in OptionalTimestamp }

\* what the RelatedCommand field of a Result holds
RelatedValues ==
    { JsonStrV(WireCommand("SetPosition", 3, << >>)),
      JsonStrV(WireCommand("PlugCmd", 4, << Field("CmdTargetId", StrV(<< "A" >>)) >>)),
      JsonStrV(WireCommand("Nope", 3, << >>)),
      StrV(<< "x" >>),
      WireCommand("SetPosition", 3, << >>) }

ResultWires ==
    { WireCommand(name, 8, << Field("RelatedCommand", related) >> \o timestamp) :
        name \in { "SuccessResult", "Nope" }, related \in RelatedValues,
        timestamp \in OptionalTimestamp }

\* texts that decode to something else than a command
OtherWires ==
    { IntV(1),
      JObject(<< Field("CmdUuid", UuidOf(7)) >>),
      JObject(<< Field("CmdName", IntV(1)), Field("CmdUuid", UuidOf(7)) >>),
      WireCommand("SetPosition", 7, << Field("Year", IntV(1)), Field("Month", IntV(1)),
                                       Field("Day", IntV(1)) >>) }

FaInit ==
    /\ fa_wire \in CommandWires \cup ResultWires \cup OtherWires
    /\ fa_call = "start"
    /\ fa_out = Created("", NoObject)
    /\ fa_clock = 0

FaCreateCommand ==
    /\ fa_call = "start"
    /\ fa_call' = "createCommand"
    /\ fa_out' = createCommand(fa_wire)
    /\ UNCHANGED << fa_wire, fa_clock >>
    /\ UNCHANGED faOthers

FaCreateCommandResult ==
    /\ fa_call = "start"
    /\ fa_call' = "createCommandResult"
    /\ fa_out' = createCommandResultOfTree(fa_wire)
    /\ UNCHANGED << fa_wire, fa_clock >>
    /\ UNCHANGED faOthers

NextFactory ==
    \/ FaCreateCommand
    \/ FaCreateCommandResult

InitFactory == SessInit /\ PkIdle /\ CoIdle /\ CmIdle /\ CnIdle /\ SnIdle /\ FaInit /\ UnIdle

SpecFactory == InitFactory /\ [][NextFactory]_vars

(***************************************************************************)
(* obj_hook on its own: json.loads on the text of one object without       *)
(* nested objects, whose keys are any of the keys of a date and a          *)
(* date-time and one other key, and whose values need not be the numbers   *)
(* of a date.                                                              *)
(***************************************************************************)
HookKeys == << "Spec", "Year", "Month", "Day", "Hour", "Minute", "Second", "Lat" >>

HookValues(key) ==
    IF key = "Spec" THEN { StrV(<< "U", "T", "C" >>), StrV(<< "G", "P", "S" >>) }
    ELSE { IntV(0), IntV(1) }

RECURSIVE HookMembers(_)
HookMembers(from) ==
    IF from > Len(HookKeys) THEN { << >> }
    ELSE HookMembers(from + 1)
            \cup { << Field(HookKeys[from], v) >> \o rest :
                        v \in HookValues(HookKeys[from]), rest \in HookMembers(from + 1) }

HookInit ==
    /\ co_pc = "encoded"
    /\ co_m = IntV(0)
    /\ co_json \in { JObject(d) : d \in HookMembers(1) }
    /\ co_out = IntV(0)

NextHook == CoDecode

InitHook == SessInit /\ PkIdle /\ HookInit /\ CmIdle /\ CnIdle /\ SnIdle /\ FaIdle /\ UnIdle

SpecHook == InitHook /\ [][NextHook]_vars

\* The keys of the object that was decoded.
HookedKeys == Keys(co_json.members)

HasDateKeys == { "Year", "Month", "Day" } \subseteq HookedKeys

HasTimeKeys == { "Spec", "Hour", "Minute", "Second" } \subseteq HookedKeys

\* The numbers under the date keys are the numbers of a date: a year, a
\* month and a day of 1 or more (every number is an hour, a minute, a second).
DateNumbersOk ==
    \A i \in 1 .. Len(co_json.members) :
        co_json.members[i].k \in { "Year", "Month", "Day" } => co_json.members[i].v # IntV(0)

\* C18 as claimed: every decoded object becomes a date-time exactly when it
\* has all seven keys, a date exactly when it has the date keys and not all
\* four time keys, and a wrapper of all its fields in every other case.
C18_ClassifiedByKeys ==
    co_pc = "decoded" =>
        /\ co_out.t = "datetime" <=> (HasDateKeys /\ HasTimeKeys)
        /\ co_out.t = "date" <=> (HasDateKeys /\ ~HasTimeKeys)
        /\ ~HasDateKeys => co_out = ObjV(co_json.members)

\* C18 amended: the same classification for every object that is decoded,
\* and an object with the date keys is decoded exactly when the numbers under
\* them are the numbers of a date; otherwise decoding raises and yields no
\* value.
C18_ClassifiedByKeysWhenDecoded ==
    co_pc = "decoded" =>
        /\ co_out.t \in { "datetime", "date", "obj", "error" }
        /\ co_out.t = "error" <=> (HasDateKeys /\ ~DateNumbersOk)
        /\ co_out.t = "datetime" <=> (HasDateKeys /\ HasTimeKeys /\ DateNumbersOk)
        /\ co_out.t = "date" <=> (HasDateKeys /\ ~HasTimeKeys /\ DateNumbersOk)
        /\ ~HasDateKeys => co_out = ObjV(co_json.members)
        /\ co_out.t \in { "datetime", "date" } =>
                /\ IntV(co_out.y) = Get(co_json.members, "Year")
                /\ IntV(co_out.mo) = Get(co_json.members, "Month")
                /\ IntV(co_out.d) = Get(co_json.members, "Day")

\* C18 witness: an object with the date keys, three of the four time keys
\* and another key has become a date.
C18_Witness ==
    /\ co_pc = "decoded"
    /\ co_out.t = "date"
    /\ HookedKeys = { "Year", "Month", "Day", "Hour", "Minute", "Second", "Lat" }

(***************************************************************************)
(* Client._getPacket on its own.  The peer numbers the bytes it writes, so *)
(* that the order of the bytes of a packet can be told.                    *)
(***************************************************************************)
PkInit ==
    /\ pk_size \in 0 .. MaxSize
    /\ pk_packet = << >>
    /\ pk_first = TRUE
    /\ pk_stream = << >>
    /\ pk_closed = FALSE
    /\ pk_state = "reading"
    /\ pk_chunks = << >>
    /\ pk_written = 0

PeerWrites(n) ==
    /\ ~pk_closed
    /\ pk_written + n <= MaxBytes
    /\ pk_stream' = pk_stream \o [i \in 1 .. n |-> pk_written + i]
    /\ pk_written' = pk_written + n
    /\ UNCHANGED << pk_size, pk_packet, pk_first, pk_closed, pk_state, pk_chunks >>
    /\ UNCHANGED pkOthers

PeerCloses ==
    /\ ~pk_closed
    /\ pk_closed' = TRUE
    /\ UNCHANGED << pk_size, pk_packet, pk_first, pk_stream, pk_state, pk_chunks, pk_written >>
    /\ UNCHANGED pkOthers

\* client.py lines 37 to 43: one recv of _getPacket and what it leads to
PacketRecv ==
    /\ pk_state = "reading"
    /\ \E chunk \in RecvChunks(pk_stream, pk_closed, GetPacketAsk(pk_packet, pk_first, pk_size)) :
        LET r == GetPacketStep(pk_packet, pk_first, pk_size, chunk) IN
        /\ pk_stream' = SubSeq(pk_stream, Len(chunk) + 1, Len(pk_stream))
        /\ pk_chunks' = Append(pk_chunks, chunk)
        /\ pk_packet' = r.packet
        /\ pk_first' = FALSE
        /\ pk_state' = IF r.raised THEN "raised" ELSE IF r.done THEN "returned" ELSE "reading"
    /\ UNCHANGED << pk_size, pk_closed, pk_written >>
    /\ UNCHANGED pkOthers

NextPacket ==
    \/ \E n \in 1 .. MaxBytes : PeerWrites(n)
    \/ PeerCloses
    \/ PacketRecv

InitPacket == SessInit /\ PkInit /\ CoIdle /\ CmIdle /\ CnIdle /\ SnIdle /\ FaIdle /\ UnIdle

SpecPacket == InitPacket /\ [][NextPacket]_vars

RECURSIVE Flatten(_)
Flatten(chunks) == IF chunks = << >> THEN << >> ELSE Head(chunks) \o Flatten(Tail(chunks))

\* A recv has returned no byte although size bytes were asked for.
ZeroRead == pk_size > 0 /\ \E i \in 1 .. Len(pk_chunks) : pk_chunks[i] = << >>

\* C5: _getPacket(size) never holds more than size bytes and holds the
\* chunks received, in order; it returns exactly the first size bytes the
\* peer wrote; it goes on reading while it has fewer; it raises only after a
\* recv returned no byte with fewer than size bytes read, and after such a
\* recv it never returns: the next recv finds the peer closed and raises.
C5_ExactSizeRead ==
    /\ pk_state \in { "reading", "returned", "raised" } =>
            /\ Len(pk_packet) <= pk_size
            /\ pk_packet = Flatten(pk_chunks)
    /\ pk_state = "returned" =>
            /\ Len(pk_packet) = pk_size
            /\ \A i \in 1 .. pk_size : pk_packet[i] = i
            /\ ~ZeroRead
    /\ pk_state = "reading" => (pk_first \/ Len(pk_packet) < pk_size)
    /\ pk_state = "raised" =>
            /\ Len(pk_packet) < pk_size
            /\ pk_chunks[Len(pk_chunks)] = << >>
    /\ (ZeroRead /\ pk_state = "reading") =>
            RecvChunks(pk_stream, pk_closed, GetPacketAsk(pk_packet, pk_first, pk_size)) = { << >> }

\* C5 witness: a packet of the largest size returned from three chunks.
C5_Witness ==
    /\ pk_state = "returned"
    /\ pk_size = MaxSize
    /\ Len(pk_chunks) = 3

(***************************************************************************)
(* Properties of the session.                                              *)
(***************************************************************************)
Last(q) == q[Len(q)]

\* C1: waitCommand returns only a Result whose related command's UUID is the
\* awaited command's UUID, and that Result is the frame it read last; the
\* frames read before it (Results for other commands, other kinds) are
\* discarded.
C1_ReturnsOnlyMatching ==
    ret.kind = "result" =>
        /\ ret.uuid = ret.cmd
        /\ seen # << >>
        /\ Last(seen) = ResultMessage(<< ret.name, ret.cmd >>)

\* C1 witness: a Result returned after a Result for another command was read
\* and discarded by the same call.
C1_Witness ==
    /\ ret.kind = "result"
    /\ Len(seen) = 2
    /\ \E u \in Uuids \ { ret.cmd } : seen[1] = ResultMessage(<< NameTok("SuccessResult"), u >>)

\* The bytes left of the frame the cursor is in (none on a frame boundary).
FrameLeft == IF off = 0 THEN 0 ELSE Len(Head(frames)) - off

\* The loop head after a frame of a kind the call is not interested in.
AfterSkip ==
    /\ pc = "size"
    /\ first
    /\ msgSize > 0
    /\ \/ op = "wait" /\ msgId # MsgIdResult
       \/ op = "version"

\* C3: while a frame of another kind is skipped, what is still to be read is
\* what is left of that frame; and at the next loop iteration the cursor is at
\* the first byte of the next frame, the skipped frame read to its end.
C3_SkipConsumesExactlyTheFrame ==
    /\ pc = "skip" => need - Len(packet) = FrameLeft
    /\ AfterSkip =>
            /\ off = 0
            /\ seen # << >>
            /\ Len(Last(seen)) = msgSize + 2

\* C3 witness: waitCommand at its loop head after skipping a version reply,
\* with the next frame waiting.
C3_Witness ==
    /\ AfterSkip
    /\ op = "wait"
    /\ msgId = MsgIdApiVersion
    /\ stream # << >>

\* C4: when getServerApiVersion returns, its last write is one ApiVersion
\* frame with the client's version, the value returned is the version of the
\* ApiVersion frame it read last, and every frame it read before is of
\* another kind and was read to its end.
C4_VersionOfFirstApiVersionFrame ==
    ret.kind = "version" =>
        /\ outbuf = ApiVersionMessage(ClientApiVersion)
        /\ seen # << >>
        /\ Last(seen) = ApiVersionMessage(ret.ver)
        /\ \A i \in 1 .. Len(seen) - 1 : seen[i][3] # MsgIdApiVersion
        /\ off = 0

\* C4 witness: the version returned after a Result for a command was read
\* and discarded.
C4_Witness ==
    /\ ret.kind = "version"
    /\ ret.ver \in ServerVersions
    /\ Len(seen) = 2
    /\ seen[1] = ResultMessage(<< NameTok("SuccessResult"), 1 >>)

\* C8: a decode error (malformed text, unregistered type) ends the call with
\* the error, the Result frame read to its end and the cursor on a frame
\* boundary; and a Result returned by a later waitCommand is the matching
\* one, decoded from a whole frame.
C8_DecodeErrorKeepsFraming ==
    /\ (ret.kind = "error" /\ ret.err \in { "ParseError", "ResolutionError" }) =>
            /\ op = "none"
            /\ off = 0
            /\ seen # << >>
            /\ Last(seen)[3] = MsgIdResult
    /\ (decodeErrors /\ ret.kind = "result") =>
            /\ off = 0
            /\ Last(seen) = ResultMessage(<< ret.name, ret.cmd >>)

\* C8 witness: after a decode error, a later waitCommand has returned the
\* matching Result.
C8_Witness ==
    /\ decodeErrors
    /\ ret.kind = "result"
    /\ ret.uuid = ret.cmd
    /\ ncalls = 2

\* C9 as claimed: after a read timeout, whenever it elapsed, the next call
\* starts reading at a frame boundary.
C9_TimeoutKeepsFraming == (ret.kind = "error" /\ ret.err = "Timeout") => off = 0

\* C9 amended: as long as every timeout elapsed while nothing of a frame had
\* been read, the call that timed out leaves the cursor on a frame boundary,
\* and a Result returned by a later waitCommand is the matching one, decoded
\* from a whole frame.
C9_CleanTimeoutKeepsFraming ==
    timedOut = "clean" =>
        /\ (ret.kind = "error" /\ ret.err = "Timeout") => (op = "none" /\ off = 0)
        /\ ret.kind = "result" =>
                /\ ret.uuid = ret.cmd
                /\ off = 0
                /\ Last(seen) = ResultMessage(<< ret.name, ret.cmd >>)

\* C9 witness: waitCommand timed out at a frame boundary, and a later
\* waitCommand on the same session returned the matching Result.
C9_Witness ==
    /\ timedOut = "clean"
    /\ ret.kind = "result"
    /\ ret.uuid = ret.cmd
    /\ ncalls = 2

\* Both waits of the script have returned, the second with its own Result.
PairDone ==
    /\ ncalls = Len(Script)
    /\ op = "none"
    /\ ret.kind = "result"
    /\ ret.cmd = Script[Len(Script)].cmd

\* C2 as claimed: with commands 1 and 2 sent before either is awaited, and
\* the two Results delivered in either order, waitCommand(1) and then
\* waitCommand(2) each return: the run never comes to a stop before the
\* second wait has returned its Result.
C2_EachWaitReturnsItsResult == PairDone \/ ENABLED NextPair

\* A frame that is not a Result for command c: a frame of another kind, or a
\* Result whose text names another command as its related command.
NonMatching(f, c) ==
    \/ f[3] # MsgIdResult
    \/ \E t \in ResultTexts : f = ResultMessage(t) /\ Len(t) = 2 /\ t[2] # c

\* C11 as claimed: waitCommand ends only on a matching Result or on a channel
\* failure, so when it has raised anything but a channel failure, the frame
\* it read last is not a non-matching message.
C11_NonMatchingNeverEndsWait ==
    (ret.kind = "error" /\ ret.cmd \in Uuids /\ ret.err # "ConnectionClosed")
        => ~NonMatching(Last(seen), ret.cmd)

\* The text of the Result frame f.
TextOf(f) == SubSeq(f, 8, Len(f) - 1)

\* C12: a Result that waitCommand returned is the matching one whatever its
\* type; when its type is a failure type, the call has returned it (it did
\* not raise), isSuccess() is false and getMessage() is the error message
\* the frame carried; getMessage() of a SuccessResult is "Success"; and of a
\* Result of another type it is toString().
C12_FailureIsANormalResult ==
    /\ (seen # << >> /\ op = "none" /\ JsonLoads(TextOf(Last(seen))).uuid = ret.cmd
            /\ ret.kind # "none")
            => ret.kind = "result"
    /\ ret.kind = "result" =>
            /\ ret.uuid = ret.cmd
            /\ Last(seen) = ResultMessage(<< ret.name, ret.cmd >> \o
                                (IF ret.msg = 0 THEN << >> ELSE << ret.msg >>))
            /\ isSuccess(ret) <=> ret.name # NameTok("FailureResult")
            /\ ret.name = NameTok("FailureResult") =>
                    getMessage(ret) = [by |-> "errorMsg", of |-> TextOf(Last(seen))[3]]
            /\ ret.name = NameTok("SuccessResult") => getMessage(ret) = [by |-> "Success", of |-> 0]
            /\ ret.name = NameTok("GetPositionResult") =>
                    getMessage(ret) = [by |-> "toString", of |-> ret.name]

\* C12 witness: waitCommand has returned a failure Result, after it read and
\* discarded a failure Result for another command.
C12_Witness ==
    /\ ret.kind = "result"
    /\ ret.name = NameTok("FailureResult")
    /\ ret.msg \in ErrMsgs
    /\ Len(seen) = 2
    /\ seen[1][8] = NameTok("FailureResult")

\* C14 as claimed: the text of a Result is read as the rest of its frame,
\* the version as what follows the kind byte of its frame, and when a call
\* has returned a decoded Result or version, the cursor is on a frame
\* boundary: the frame was consumed to its declared length, no more, no less.
C14_DecodedFrameConsumedToItsLength ==
    /\ pc = "json" => need = msgSize - 5
    /\ pc = "ver" => need = msgSize - 1
    /\ (op = "none" /\ ret.kind \in { "result", "version" }) => off = 0

(***************************************************************************)
(* Properties of the factory.                                              *)
(***************************************************************************)
\* The member of the text fa_wire under key k.
WireField(k) == Get(fa_wire.members, k)

WireHas(k) == fa_wire.t = "object" /\ k \in Keys(fa_wire.members)

\* The object obj holds the members of the JSON object j, key by key in
\* order, every member that is a primitive with the value it has in j.
HoldsMembersOf(obj, j) ==
    /\ obj.values.t = "obj"
    /\ Len(obj.values.values) = Len(j.members)
    /\ \A i \in 1 .. Len(j.members) :
            /\ obj.values.values[i].k = j.members[i].k
            /\ j.members[i].v.t # "object" => obj.values.values[i].v = j.members[i].v

\* C16: a command that createCommand or createCommandResult returned has the
\* type named by the CmdName of the text, holds the members of the text as
\* its values, its Uuid and its timestamp (when the text has one) being the
\* ones of the text, and no UUID was generated; a Result that
\* createCommandResult returned has, as its related command, the command
\* made the same way from the text in its RelatedCommand field, with the
\* Uuid that text carries; createCommand attaches no related command.
C16_FactoryAttachesWireValues ==
    (fa_call \in { "createCommand", "createCommandResult" } /\ fa_out.err = "") =>
        /\ WireHas("CmdName") /\ WireHas("CmdUuid")
        /\ fa_out.obj.class.name = UnitOf(WireField("CmdName").s)
        /\ HoldsMembersOf(fa_out.obj, fa_wire)
        /\ getUuid(fa_out.obj.values) = WireField("CmdUuid")
        /\ WireHas("CmdTimestamp") =>
                GetItem(fa_out.obj.values, "CmdTimestamp") = WireField("CmdTimestamp")
        /\ ~WireHas("CmdTimestamp") =>
                GetItem(fa_out.obj.values, "CmdTimestamp") = ErrorV("KeyError")
        /\ fa_clock = 0
        /\ fa_call = "createCommand" => fa_out.command = NoObject
        /\ fa_call = "createCommandResult" =>
                /\ WireHas("RelatedCommand")
                /\ WireField("RelatedCommand").t = "jsonstr"
                /\ fa_out.command # NoObject
                /\ HoldsMembersOf(fa_out.command, WireField("RelatedCommand").j)
                /\ fa_out.command.class.name =
                        UnitOf(Get(WireField("RelatedCommand").j.members, "CmdName").s)
                /\ getUuid(fa_out.command.values) =
                        Get(WireField("RelatedCommand").j.members, "CmdUuid")

\* C16 witness: createCommandResult has returned a Result with a timestamp
\* whose related command is a command of a plugin.
C16_Witness ==
    /\ fa_call = "createCommandResult"
    /\ fa_out.err = ""
    /\ fa_out.obj.class = Class(<< >>, "SuccessResult")
    /\ GetItem(fa_out.obj.values, "CmdTimestamp") = IntV(5)
    /\ fa_out.command.class = Class(<< "A" >>, "PlugCmd")
    /\ getUuid(fa_out.command.values) = UuidOf(4)

\* The module names a TargetId spells.
PathOf(targetId) == SelectSeq(targetId, LAMBDA c : c # ".")

\* The name exists in the namespace the text designates: the commands of the
\* plugin module at the path of its TargetId when it has one, the core
\* commands otherwise.
ExistsInNamespace ==
    IF WireHas("CmdTargetId")
    THEN /\ PathOf(WireField("CmdTargetId").s) \in PluginModules
         /\ WireField("CmdName").s[1] \in PluginCommands(PathOf(WireField("CmdTargetId").s))
    ELSE WireField("CmdName").s[1] \in CoreCommands

\* C17: createCommand on the text of a command returns a command exactly when
\* the name exists in the namespace the text designates, and then its type is
\* the one of that name in that namespace; otherwise it raises and there is
\* no command, also when the name exists in the other namespace.
C17_ResolutionByNamespace ==
    (fa_call = "createCommand" /\ fa_wire \in CommandWires \cup ResultWires) =>
        /\ fa_out.err = "" <=> ExistsInNamespace
        /\ fa_out.err = "" =>
                fa_out.obj.class =
                    Class(IF WireHas("CmdTargetId") THEN PathOf(WireField("CmdTargetId").s)
                          ELSE << >>,
                          WireField("CmdName").s[1])
        /\ fa_out.err # "" => (fa_out.err = "AttributeError" /\ fa_out.obj = NoObject)

\* C17 witness: createCommand has failed on a text without TargetId whose
\* name exists in a plugin only.
C17_Witness ==
    /\ fa_call = "createCommand"
    /\ fa_out.err = "AttributeError"
    /\ ~WireHas("CmdTargetId")
    /\ WireField("CmdName") = StrV(<< "PlugCmd" >>)

\* What C19 says of getServerApiVersion: it returns only when the frame it
\* read last is a version reply; it raises only on a channel failure, the peer
\* closed or the read deadline elapsed; as long as it is in progress every
\* frame it has read is of another kind; and it is never at a stop while a
\* byte it asks for has arrived: it goes on reading.
EndsOnReplyOrChannelFailure ==
    /\ (op = "none" /\ ret.kind = "version") =>
            (seen # << >> /\ Last(seen)[3] = MsgIdApiVersion)
    /\ ret.kind = "error" =>
            /\ ret.err \in { "ConnectionClosed", "Timeout" }
            /\ ret.err = "ConnectionClosed" => (closed /\ stream = << >>)
    /\ op = "version" => \A i \in 1 .. Len(seen) : seen[i][3] # MsgIdApiVersion
    /\ (op = "version" /\ stream # << >>) => ENABLED GetPacketRecv

\* C19 as claimed: on any session getServerApiVersion ends only by returning
\* on a version reply or by a channel failure, and reads on until then.
C19_VersionEndsOnReplyOrChannelFailure == EndsOnReplyOrChannelFailure

\* C19 amended: as long as no earlier call on the session timed out with part
\* of a frame read, getServerApiVersion ends only by returning on a version
\* reply or by a channel failure, and reads on until then.
C19_AlignedVersionEndsOnReplyOrChannelFailure ==
    timedOut # "torn" => EndsOnReplyOrChannelFailure

\* C19 witness: no timeout has torn a frame, and getServerApiVersion is still
\* in progress, without a read deadline, after it has drained as many frames
\* of other kinds as the server sends, with nothing left to read and the
\* server connected.
C19_Witness ==
    /\ timedOut # "torn"
    /\ op = "version"
    /\ ~timeout
    /\ Len(seen) = MaxFrames
    /\ stream = << >>
    /\ ~closed

(***************************************************************************)
(* units.py: the coordinate values and their addition.  A value is its     *)
(* class and its three attributes, in the order of __init__.               *)
(***************************************************************************)
Lla(lat, lon, alt) == [ kind |-> "Lla", c |-> << lat, lon, alt >> ]

Enu(east, north, up) == [ kind |-> "Enu", c |-> << east, north, up >> ]

Ecef(x, y, z) == [ kind |-> "Ecef", c |-> << x, y, z >> ]

Attitude(yaw, pitch, roll) == [ kind |-> "Attitude", c |-> << yaw, pitch, roll >> ]

\* Lla.__add__
LlaAdd(self, other) ==
    Lla(self.c[1] + other.c[1], self.c[2] + other.c[2], self.c[3] + other.c[3])

\* Enu.__add__
EnuAdd(self, other) ==
    Enu(self.c[1] + other.c[1], self.c[2] + other.c[2], self.c[3] + other.c[3])

\* Ecef.__add__: the value it builds is an Lla.
EcefAdd(self, other) ==
    Lla(self.c[1] + other.c[1], self.c[2] + other.c[2], self.c[3] + other.c[3])

\* Attitude.__add__
AttitudeAdd(self, other) ==
    Attitude(self.c[1] + other.c[1], self.c[2] + other.c[2], self.c[3] + other.c[3])

\* self + other, by the class of self.
Add(self, other) ==
    CASE self.kind = "Lla" -> LlaAdd(self, other)
      [] self.kind = "Enu" -> EnuAdd(self, other)
      [] self.kind = "Ecef" -> EcefAdd(self, other)
      [] self.kind = "Attitude" -> AttitudeAdd(self, other)

Components == (0 - MaxComp) .. MaxComp

Kinds == { "Lla", "Enu", "Ecef", "Attitude" }

Coordinates == [ kind : Kinds, c : [ 1 .. 3 -> Components ] ]

UnInit ==
    /\ un_a \in Coordinates
    /\ un_b \in { v \in Coordinates : v.kind = un_a.kind }
    /\ un_sum = << >>

UnAdd ==
    /\ un_sum = << >>
    /\ un_sum' = Add(un_a, un_b)
    /\ UNCHANGED << un_a, un_b >>
    /\ UNCHANGED unOthers

InitUnits ==
    SessInit /\ PkIdle /\ CoIdle /\ CmIdle /\ CnIdle /\ SnIdle /\ FaIdle /\ UnInit

NextUnits == UnAdd

SpecUnits == InitUnits /\ [][NextUnits]_vars

\* C20 as claimed: the sum of two coordinate values of the same kind is a
\* value of that kind, and each of its components is the sum of the
\* components of the two at the same place.
C20_SumHasKindAndComponentSums ==
    un_sum # << >> =>
        /\ un_sum.kind = un_a.kind
        /\ \A i \in 1 .. 3 : un_sum.c[i] = un_a.c[i] + un_b.c[i]

====
